---------------------------- MODULE Spec2Model ----------------------------
(***************************************************************************)
(* A model of eks-rolling-update: the run-mode state machine of            *)
(* update_asgs (src/eksrollup/cli.py), its capacity controller             *)
(* scale_up_asg, the health validator validate_cluster_health, and the     *)
(* polling helpers k8s_nodes_count / k8s_nodes_ready of                    *)
(* src/eksrollup/lib/k8s.py.                                               *)
(*                                                                         *)
(* The process is one thread of control; `pc` is its position.  Every      *)
(* action is one call to the cloud or to the cluster together with the     *)
(* local computation that follows it up to the next call.  The cloud       *)
(* (autoscaling groups, tags, suspensions, instances) and the cluster      *)
(* (nodes) are state of the model; what they answer (health, eviction,     *)
(* termination results) is chosen nondeterministically.                    *)
(***************************************************************************)
EXTENDS Integers, Sequences, FiniteSets, TLC

(***************************************************************************)
(* Bounds of the model.                                                    *)
(***************************************************************************)
MaxRuns == 3            \* invocations of the tool (a kill or abort, then a rerun)
MaxHealthRetry == 2     \* largest CLUSTER_HEALTH_RETRY drawn
MaxParallel == 2        \* largest K8S_PARALLEL_NODES_COUNT drawn
MaxBatch == 2           \* largest BATCH_SIZE drawn

(***************************************************************************)
(* Names.  An autoscaling group name is a string, modelled as a sequence   *)
(* of characters so that `group in asg_name` is a real substring test.     *)
(***************************************************************************)
Max(S) == CHOOSE x \in S : \A y \in S : y <= x

AsgName == << <<"w", "a">>, <<"w", "b">> >>
Groups == DOMAIN AsgName

\* The autoscaling groups as the cloud holds them before the first run.
InitialDesiredCapacity == << 2, 1 >>
InitialMaxSize == << 2, 2 >>

DESIRED == "ASG_DESIRED_STATE_TAG"
ORIG == "ASG_ORIG_CAPACITY_TAG"
ORIGMAX == "ASG_ORIG_MAX_CAPACITY_TAG"
TagKeys == {DESIRED, ORIG, ORIGMAX}

\* Every instance of a group may be outdated: at most DesiredCapacity of them.
Instances == { <<g, k>> : g \in Groups, k \in 1..Max({InitialDesiredCapacity[h] : h \in Groups}) }

VARIABLES
    app_config,             \* the configuration, fixed for the whole behaviour
    poll,                   \* the k8s_nodes_count / k8s_nodes_ready call in progress
    health,                 \* the validate_cluster_health call observed on its own
    lookup,                 \* the get_node_by_instance_id call observed on its own
    DesiredCapacity,        \* cloud: group -> requested desired capacity
    MaxSize,                \* cloud: group -> max size
    Tags,                   \* cloud: group -> (tag key -> value), keys present only
    suspended,              \* cloud: group -> scaling processes suspended
    outdated,               \* cloud: group -> sequence of outdated instances
    terminated,             \* cloud: instances terminated so far
    runs,                   \* number of invocations started
    pc,                     \* position of the running invocation
    asg,                    \* the plan's snapshot of each group
    plan,                   \* asg_outdated_instance_dict: group -> instances
    k8s_nodes,              \* included node list fetched by update_asgs
    k8s_excluded_nodes,     \* excluded node list fetched by update_asgs
    instance_to_node_cache, \* instances whose node name is cached
    asg_state_dict,         \* group -> triple returned by scale_up_asg
    gq,                     \* groups still to visit in the current loop
    iq,                     \* instances still to visit in the current loop
    su,                     \* locals of the scale_up_asg call in progress
    retry_count,            \* validate_cluster_health's attempt counter
    desired_asg_capacity,   \* running counter of the retirement loop
    running_updates,        \* throttle counter of the retirement loop
    fatal,                  \* how the invocation ended, when it ended badly
    log                     \* what this invocation did (observation only)

cloudVars == <<DesiredCapacity, MaxSize, Tags, suspended, outdated, terminated>>
runVars == <<pc, asg, plan, k8s_nodes, k8s_excluded_nodes, instance_to_node_cache,
             asg_state_dict, gq, iq, su, retry_count, desired_asg_capacity,
             running_updates, fatal, log>>
vars == <<app_config, poll, health, lookup, runs, cloudVars, runVars>>

(***************************************************************************)
(* Pure helpers.                                                           *)
(***************************************************************************)
\* Python's `s in t` on strings.
IsSubstr(s, t) ==
    \E i \in 0..(Len(t) - Len(s)) : SubSeq(t, i + 1, i + Len(s)) = s

Contains(seq, x) == \E i \in 1..Len(seq) : seq[i] = x

\* The plan lists the groups in the order the cloud returned them.
PlanOrder == [i \in 1..Len(AsgName) |-> i]

\* any(group in asg_name for group in worker_groups_order)
InWorkerGroupsOrder(g, order) ==
    \E i \in 1..Len(order) : IsSubstr(order[i], AsgName[g])

\* An inner loop that appends a group every time an entry matches it.
RECURSIVE InsertMatchingAgain(_, _, _)
InsertMatchingAgain(acc, entry, groups) ==
    IF groups = <<>> THEN acc
    ELSE LET g == Head(groups)
             acc2 == IF IsSubstr(entry, AsgName[g]) THEN Append(acc, g) ELSE acc
         IN InsertMatchingAgain(acc2, entry, Tail(groups))

\* The inner loop of the sort: the groups of the plan whose name contains
\* `entry`, appended to `acc` unless already in it (a dict keeps the place of
\* a key that is assigned again).
RECURSIVE InsertMatching(_, _, _)
InsertMatching(acc, entry, groups) ==
    IF groups = <<>> THEN acc
    ELSE LET g == Head(groups)
             acc2 == IF IsSubstr(entry, AsgName[g]) /\ ~Contains(acc, g)
                     THEN Append(acc, g) ELSE acc
         IN InsertMatching(acc2, entry, Tail(groups))

RECURSIVE SortByOrder(_, _)
SortByOrder(acc, order) ==
    IF order = <<>> THEN acc
    ELSE SortByOrder(InsertMatching(acc, Head(order), PlanOrder), Tail(order))

\* sorted_asg_outdated_instance_dict, as the sequence of its keys.
SortedAsgs(order) == SortByOrder(<<>>, order)

\* get_asg_tag(tags, key).get('Value') is truthy: the tag is on the group.
\* (Tag values are written from integers and read back through int().)
HasTag(tags, key) == key \in DOMAIN tags

\* save_asg_tags / delete_asg_tags on one group's tags.
SaveTag(tags, key, value) == [k \in (DOMAIN tags) \cup {key} |-> IF k = key THEN value ELSE tags[k]]
DeleteTag(tags, key) == [k \in (DOMAIN tags) \ {key} |-> tags[k]]

NoTags == [k \in {} |-> 0]
NoTriple == <<>>

\* get_node_by_instance_id(nodes, instance_id): the list is searched; on a
\* miss it is replaced by the value of get_k8s_nodes(), which is the pair
\* (nodes, excluded_nodes): its two elements are lists and are skipped, so no
\* later attempt can match.  "" stands for the exception raised in the end.
RECURSIVE SearchNodes(_, _, _, _)
SearchNodes(nodes, refreshed, instance_id, attempt) ==
    IF attempt >= 3 THEN ""
    ELSE IF ~refreshed /\ instance_id \in nodes THEN "found"
    ELSE SearchNodes(nodes, TRUE, instance_id, attempt + 1)

get_node_by_instance_id(nodes, instance_id) ==
    SearchNodes(nodes, FALSE, instance_id, 0) = "found"

(***************************************************************************)
(* The initial state: the cloud before the first invocation.  No rollout   *)
(* is in flight: no state tag, no suspension.  Tags left by an interrupted *)
(* run arise from Kill and Restart below.                                  *)
(***************************************************************************)
BatchSizes == 0..MaxBatch       \* 0: no BATCH_SIZE configured
\* One list for every order and selection of the groups, and one whose
\* entries both match the first group.
WorkerGroupOrders ==
    { <<>>, << <<"a">> >>, << <<"b">> >>, << <<"w">> >>,
      << <<"b">>, <<"a">> >>, << <<"a">>, <<"w">> >> }
NodeLocations == {"included", "excluded", "missing"}

Configs ==
    [ RUN_MODE : 1..4,
      ASG_USE_TERMINATION_POLICY : BOOLEAN,
      BATCH_SIZE : BatchSizes,
      K8S_PARALLEL_NODES_COUNT : 1..MaxParallel,
      K8S_WORKER_GROUPS_ORDER : WorkerGroupOrders,
      CLUSTER_HEALTH_RETRY : 1..MaxHealthRetry ]

NoCall == [g |-> 0, count |-> 0, ret |-> "", path |-> "", expected |-> 0,
           desired_capacity |-> 0, old_desired_capacity |-> 0, current_capacity |-> <<>>]

\* No polling helper is running.
NoPoll == [fn |-> "", pc |-> "idle", max_retry |-> 0, desired_node_count |-> 0,
           exclude_node_label_keys |-> [is_none |-> TRUE, keys |-> {}],
           retry_count |-> 0, result |-> FALSE, items |-> <<>>, polls |-> 0]

\* No validate_cluster_health call is observed.
NoValidation == [pc |-> "idle", cluster_health_retry |-> 0, retry_count |-> 0,
                 attempts |-> <<>>]

\* No get_node_by_instance_id call is observed.
NoLookup == [pc |-> "idle", retries |-> 0, attempt |-> 0, instance_id |-> <<>>,
             k8s_nodes |-> <<>>, node_name |-> "", error |-> "", fetched |-> <<>>]

EmptyLog ==
    [ marked |-> {},                            \* nodes cordoned or tainted
      drained |-> {},                           \* nodes drained
      deleted |-> {},                           \* nodes delete_node was called for
      terminated |-> {},                        \* instances termination was requested for
      skipped |-> {},                           \* instances the retirement loop skipped
      evict_failed |-> {},                      \* nodes whose drain raised (an eviction failed)
      scale_calls |-> [g \in Groups |-> <<>>],  \* scale_asg requests of scale_up_asg
      validated |-> [g \in Groups |-> <<>>],    \* capacities validate_cluster_health passed
      entry_tags |-> [g \in Groups |-> NoTags], \* the tags scale_up_asg found
      scaled_down |-> {},                       \* groups the cleanup scaled down
      phases |-> [g \in Groups |-> <<>>] ]      \* per group: the kinds of operation, in order

\* The log with one more operation on the group: a kind is entered when it
\* differs from the kind of the group's previous operation.
Phase(l, g, kind) ==
    [l EXCEPT !.phases[g] = IF @ # <<>> /\ @[Len(@)] = kind THEN @ ELSE Append(@, kind)]

FreshRun ==
    /\ pc = "plan"
    /\ asg = [g \in Groups |-> [DesiredCapacity |-> 0, MaxSize |-> 0, Tags |-> NoTags]]
    /\ plan = [g \in Groups |-> <<>>]
    /\ k8s_nodes = {}
    /\ k8s_excluded_nodes = {}
    /\ instance_to_node_cache = {}
    /\ asg_state_dict = [g \in Groups |-> NoTriple]
    /\ gq = <<>>
    /\ iq = <<>>
    /\ su = NoCall
    /\ retry_count = 0
    /\ desired_asg_capacity = 0
    /\ running_updates = 0
    /\ fatal = ""
    /\ log = EmptyLog

CleanCloud ==
    /\ DesiredCapacity = [g \in Groups |-> InitialDesiredCapacity[g]]
    /\ MaxSize = [g \in Groups |-> InitialMaxSize[g]]
    /\ Tags = [g \in Groups |-> NoTags]
    /\ suspended = [g \in Groups |-> FALSE]
    /\ \E n \in [Groups -> 0..Max({InitialDesiredCapacity[h] : h \in Groups})] :
          /\ \A g \in Groups : n[g] <= InitialDesiredCapacity[g]
          /\ outdated = [g \in Groups |-> [k \in 1..n[g] |-> <<g, k>>]]
    /\ terminated = {}
    /\ runs = 1
    /\ FreshRun

Init ==
    /\ app_config \in Configs
    /\ poll = NoPoll
    /\ health = NoValidation
    /\ lookup = NoLookup
    /\ CleanCloud

(***************************************************************************)
(* update_asgs, lines 147-162: the plan.  It holds every group with the    *)
(* snapshot of it and its outdated instances that are still running.       *)
(***************************************************************************)
StillRunning(seq) == SelectSeq(seq, LAMBDA i : i \notin terminated)

Plan ==
    /\ pc = "plan"
    /\ asg' = [g \in Groups |-> [DesiredCapacity |-> DesiredCapacity[g],
                                 MaxSize |-> MaxSize[g], Tags |-> Tags[g]]]
    /\ plan' = [g \in Groups |-> StillRunning(outdated[g])]
    /\ gq' = PlanOrder
    /\ pc' = IF app_config.RUN_MODE = 2 THEN "upfront_scale" ELSE "get_nodes"
    /\ UNCHANGED <<app_config, poll, health, lookup, runs, cloudVars, k8s_nodes, k8s_excluded_nodes,
                   instance_to_node_cache, asg_state_dict, iq, su, retry_count,
                   desired_asg_capacity, running_updates, fatal, log>>

(***************************************************************************)
(* scale_up_asg.                                                           *)
(***************************************************************************)
\* The caller's assignment asg_state_dict[asg_name] = scale_up_asg(...) and
\* the caller's next position (line 170 in the upfront loop, line 212 in the
\* per-group loop).
ReturnFromScaleUp(triple) ==
    /\ asg_state_dict' = [asg_state_dict EXCEPT ![su.g] = triple]
    /\ su' = NoCall
    /\ retry_count' = 0
    /\ IF su.ret = "upfront"
       THEN /\ gq' = Tail(gq)
            /\ iq' = iq
            /\ pc' = "upfront_scale"
       ELSE /\ gq' = gq
            /\ iq' = plan[su.g]
            /\ pc' = IF app_config.RUN_MODE \in {1, 4} THEN "cordon" ELSE "suspend"

\* The call itself: the locals of lines 58-63.
CallScaleUp(g, ret) ==
    /\ su' = [g |-> g, count |-> Len(plan[g]), ret |-> ret, path |-> "",
              expected |-> 0,
              desired_capacity |-> asg[g].DesiredCapacity + Len(plan[g]),
              old_desired_capacity |-> asg[g].DesiredCapacity,
              current_capacity |-> <<>>]
    /\ pc' = "su_resume"

\* int() of the three tag values, lines 80-81 and 105-106; a missing tag reads
\* as None and int(None) raises TypeError.
AllTags(tags) == HasTag(tags, DESIRED) /\ HasTag(tags, ORIG) /\ HasTag(tags, ORIGMAX)
TagTriple(tags) == <<tags[DESIRED], tags[ORIG], tags[ORIGMAX]>>

\* Line 75: no outdated instance, the target is the current capacity.
CapacityUnchangedNever(desired_capacity, asg_old_desired_capacity) == FALSE
CapacityUnchanged(desired_capacity, asg_old_desired_capacity) ==
    desired_capacity = asg_old_desired_capacity

\* Line 93: a desired-capacity tag of a previous run is on the group.
PreviousRunTagIgnored(tags) == FALSE
PreviousRunTag(tags) == HasTag(tags, DESIRED)

\* Lines 65-93: the stale suspension is cleared, then the branch is chosen
\* from the outdated count and the tags of the snapshot.
ScaleUpResume ==
    /\ pc = "su_resume"
    /\ suspended' = [suspended EXCEPT ![su.g] = FALSE]
    /\ log' = Phase([log EXCEPT !.entry_tags[su.g] = asg[su.g].Tags], su.g, "scale_up")
    /\ LET tags == asg[su.g].Tags IN
       IF CapacityUnchanged(su.desired_capacity, su.old_desired_capacity)
       THEN IF AllTags(tags)
            THEN /\ ReturnFromScaleUp(TagTriple(tags))
                 /\ UNCHANGED <<fatal>>
            ELSE /\ pc' = "su_zero_tag1"
                 /\ UNCHANGED <<su, asg_state_dict, gq, iq, retry_count, fatal>>
       ELSE IF PreviousRunTag(tags)
            THEN /\ pc' = "su_health"
                 /\ su' = [su EXCEPT !.path = "resume", !.expected = tags[DESIRED]]
                 /\ retry_count' = 0
                 /\ UNCHANGED <<asg_state_dict, gq, iq, fatal>>
            ELSE /\ pc' = "su_tag1"
                 /\ su' = [su EXCEPT !.path = "fresh"]
                 /\ UNCHANGED <<asg_state_dict, gq, iq, retry_count, fatal>>
    /\ UNCHANGED <<app_config, poll, health, lookup, runs, DesiredCapacity, MaxSize, Tags, outdated, terminated,
                   asg, plan, k8s_nodes, k8s_excluded_nodes,
                   instance_to_node_cache, desired_asg_capacity, running_updates>>

\* Lines 83-86: no outdated instance and no complete tags: the current state
\* is written as both original and desired.
ScaleUpZeroTags ==
    /\ pc \in {"su_zero_tag1", "su_zero_tag2", "su_zero_tag3"}
    /\ LET g == su.g
           c == su.old_desired_capacity
       IN CASE pc = "su_zero_tag1" ->
                 /\ Tags' = [Tags EXCEPT ![g] = SaveTag(@, ORIG, c)]
                 /\ pc' = "su_zero_tag2"
                 /\ UNCHANGED <<su, asg_state_dict, gq, iq, retry_count>>
            [] pc = "su_zero_tag2" ->
                 /\ Tags' = [Tags EXCEPT ![g] = SaveTag(@, DESIRED, c)]
                 /\ pc' = "su_zero_tag3"
                 /\ UNCHANGED <<su, asg_state_dict, gq, iq, retry_count>>
            [] pc = "su_zero_tag3" ->
                 /\ Tags' = [Tags EXCEPT ![g] = SaveTag(@, ORIGMAX, asg[g].MaxSize)]
                 /\ ReturnFromScaleUp(<<c, c, asg[g].MaxSize>>)
    /\ UNCHANGED <<app_config, poll, health, lookup, runs, DesiredCapacity, MaxSize, suspended, outdated,
                   terminated, asg, plan, k8s_nodes, k8s_excluded_nodes,
                   instance_to_node_cache, desired_asg_capacity, running_updates,
                   fatal, log>>

\* Lines 109-113: a fresh rollout writes the three tags.
ScaleUpFreshTags ==
    /\ pc \in {"su_tag1", "su_tag2", "su_tag3"}
    /\ LET g == su.g IN
       CASE pc = "su_tag1" ->
                 /\ Tags' = [Tags EXCEPT ![g] = SaveTag(@, ORIG, su.old_desired_capacity)]
                 /\ pc' = "su_tag2"
         [] pc = "su_tag2" ->
                 /\ Tags' = [Tags EXCEPT ![g] = SaveTag(@, DESIRED, su.desired_capacity)]
                 /\ pc' = "su_tag3"
         [] pc = "su_tag3" ->
                 /\ Tags' = [Tags EXCEPT ![g] = SaveTag(@, ORIGMAX, asg[g].MaxSize)]
                 /\ pc' = "su_scale"
    /\ UNCHANGED <<app_config, poll, health, lookup, runs, DesiredCapacity, MaxSize, suspended, outdated,
                   terminated, asg, plan, k8s_nodes, k8s_excluded_nodes,
                   instance_to_node_cache, asg_state_dict, gq, iq, su, retry_count,
                   desired_asg_capacity, running_updates, fatal, log>>

\* Lines 116-125: the next capacity to request.
NextCapacityOneStep(current_capacity, old_desired_capacity, desired_capacity, batch_size) ==
    desired_capacity
NextCapacity(current_capacity, old_desired_capacity, desired_capacity, batch_size) ==
    IF batch_size # 0
    THEN LET base == IF current_capacity = <<>> THEN old_desired_capacity
                     ELSE current_capacity[1]
         IN IF base + batch_size >= desired_capacity THEN desired_capacity
            ELSE base + batch_size
    ELSE desired_capacity

\* A request that never touches the max size.
NewMaxSizeKept(current_capacity, asg_old_max_size) == asg_old_max_size

\* Lines 127-131: the max size requested with it.
NewMaxSize(current_capacity, asg_old_max_size) ==
    IF current_capacity > asg_old_max_size THEN current_capacity ELSE asg_old_max_size

\* scale_asg(asg_name, previous, new_desired, new_max): the group is patched.
ScaleUpScale ==
    /\ pc = "su_scale"
    /\ LET g == su.g
           cur == NextCapacity(su.current_capacity, su.old_desired_capacity,
                               su.desired_capacity, app_config.BATCH_SIZE)
           max == NewMaxSize(cur, asg[g].MaxSize)
       IN /\ DesiredCapacity' = [DesiredCapacity EXCEPT ![g] = cur]
          /\ MaxSize' = [MaxSize EXCEPT ![g] = max]
          /\ su' = [su EXCEPT !.current_capacity = <<cur>>, !.expected = cur,
                              !.old_desired_capacity =
                                  IF app_config.BATCH_SIZE # 0 /\ su.current_capacity # <<>>
                                  THEN su.current_capacity[1] ELSE @]
          /\ log' = [log EXCEPT !.scale_calls[g] = Append(@, <<cur, max>>)]
    /\ retry_count' = 0
    /\ pc' = "su_health"
    /\ UNCHANGED <<app_config, poll, health, lookup, runs, Tags, suspended, outdated, terminated, asg,
                   plan, k8s_nodes, k8s_excluded_nodes, instance_to_node_cache,
                   asg_state_dict, gq, iq, desired_asg_capacity, running_updates, fatal>>

(***************************************************************************)
(* validate_cluster_health, lines 15-54.  One action is one attempt: the   *)
(* four checks in order, the first failing one ending the attempt.         *)
(***************************************************************************)
\* The first failing check of an attempt, 0 when all four pass:
\* 1 is_asg_scaled, 2 is_asg_healthy, 3 k8s_nodes_count, 4 k8s_nodes_ready.
\* What the cloud and the cluster answer is theirs to choose.
AttemptOutcomes == 0..4

\* What follows a passed validation in scale_up_asg: lines 105-106 on the
\* resume path, lines 141-144 on the fresh path.
AfterValidation ==
    IF su.path = "resume"
    THEN IF AllTags(asg[su.g].Tags)
         THEN /\ ReturnFromScaleUp(TagTriple(asg[su.g].Tags))
              /\ UNCHANGED fatal
         ELSE /\ pc' = "raised"
              /\ fatal' = "TypeError"
              /\ UNCHANGED <<su, retry_count, asg_state_dict, gq, iq>>
    ELSE IF su.current_capacity[1] = su.desired_capacity
         THEN /\ ReturnFromScaleUp(<<su.desired_capacity, asg[su.g].DesiredCapacity,
                                     asg[su.g].MaxSize>>)
              /\ UNCHANGED fatal
         ELSE /\ pc' = "su_scale"
              /\ UNCHANGED <<su, retry_count, asg_state_dict, gq, iq, fatal>>

HealthAttempt ==
    /\ pc = "su_health"
    /\ retry_count < app_config.CLUSTER_HEALTH_RETRY
    /\ \E f \in AttemptOutcomes :
          IF f = 0
          THEN /\ log' = [log EXCEPT !.validated[su.g] = Append(@, su.expected)]
               /\ AfterValidation
          ELSE /\ retry_count' = retry_count + 1
               /\ UNCHANGED <<pc, su, asg_state_dict, gq, iq, fatal, log>>
    /\ UNCHANGED <<app_config, poll, health, lookup, runs, cloudVars, asg, plan, k8s_nodes, k8s_excluded_nodes,
                   instance_to_node_cache, desired_asg_capacity, running_updates>>

\* Lines 53-54 without the raise: the failure is logged and the caller goes on.
HealthExhaustedSwallowed ==
    /\ pc = "su_health"
    /\ retry_count >= app_config.CLUSTER_HEALTH_RETRY
    /\ fatal' = "HealthCheck"
    /\ ReturnFromScaleUp(<<su.desired_capacity, asg[su.g].DesiredCapacity, asg[su.g].MaxSize>>)
    /\ UNCHANGED <<app_config, poll, health, lookup, runs, cloudVars, asg, plan, k8s_nodes, k8s_excluded_nodes,
                   instance_to_node_cache, desired_asg_capacity, running_updates, log>>

\* Lines 53-54: the budget is used up.
HealthExhausted ==
    /\ pc = "su_health"
    /\ retry_count >= app_config.CLUSTER_HEALTH_RETRY
    /\ pc' = "raised"
    /\ fatal' = "HealthCheck"
    /\ UNCHANGED <<app_config, poll, health, lookup, runs, cloudVars, asg, plan, k8s_nodes, k8s_excluded_nodes,
                   instance_to_node_cache, asg_state_dict, gq, iq, su, retry_count,
                   desired_asg_capacity, running_updates, log>>

(***************************************************************************)
(* update_asgs: the upfront phases, lines 164-195.                         *)
(***************************************************************************)
\* Lines 165-170 (run mode 2): scale_up_asg for every group of the plan.
UpfrontScale ==
    /\ pc = "upfront_scale"
    /\ IF gq = <<>>
       THEN /\ pc' = "get_nodes"
            /\ UNCHANGED su
       ELSE CallScaleUp(Head(gq), "upfront")
    /\ UNCHANGED <<app_config, poll, health, lookup, runs, cloudVars, asg, plan, k8s_nodes, k8s_excluded_nodes,
                   instance_to_node_cache, asg_state_dict, gq, iq, retry_count,
                   desired_asg_capacity, running_updates, fatal, log>>

\* An upfront cordon loop that visits nothing.
UpfrontInstancesNone(groups, order) == <<>>

\* The instances the upfront cordon loop visits: those of the groups named
\* by the worker group order, in plan order (lines 175-180).
RECURSIVE UpfrontInstances(_, _)
UpfrontInstances(groups, order) ==
    IF groups = <<>> THEN <<>>
    ELSE (IF InWorkerGroupsOrder(Head(groups), order) THEN plan[Head(groups)] ELSE <<>>)
         \o UpfrontInstances(Tail(groups), order)

\* What the cluster can answer to list_node about the planned instances:
\* each one's node carries no exclusion label, or carries one, or is not
\* registered.
RECURSIVE PlannedInstances(_)
PlannedInstances(groups) ==
    IF groups = <<>> THEN {}
    ELSE { plan[Head(groups)][k] : k \in 1..Len(plan[Head(groups)]) }
         \cup PlannedInstances(Tail(groups))

ClusterAnswers == [PlannedInstances(PlanOrder) -> NodeLocations]

\* get_k8s_nodes, k8s.py lines 57-71: the nodes are split by the exclusion labels.
IncludedNodes(loc) == { i \in DOMAIN loc : loc[i] = "included" }
ExcludedNodes(loc) == { i \in DOMAIN loc : loc[i] = "excluded" }

\* Line 173, and the sort of lines 198-202 when no upfront cordon follows.
GetNodes ==
    /\ pc = "get_nodes"
    /\ \E loc \in ClusterAnswers :
          /\ k8s_nodes' = IncludedNodes(loc)
          /\ k8s_excluded_nodes' = ExcludedNodes(loc)
    /\ IF app_config.RUN_MODE \in {2, 3}
       THEN /\ pc' = "upfront_cordon"
            /\ iq' = UpfrontInstances(PlanOrder, app_config.K8S_WORKER_GROUPS_ORDER)
            /\ gq' = <<>>
       ELSE /\ pc' = "group"
            /\ iq' = <<>>
            /\ gq' = SortedAsgs(app_config.K8S_WORKER_GROUPS_ORDER)
    /\ UNCHANGED <<app_config, poll, health, lookup, runs, cloudVars, asg, plan, instance_to_node_cache,
                   asg_state_dict, su, retry_count, desired_asg_capacity,
                   running_updates, fatal, log>>

\* cordon_node / taint_node, k8s.py lines 213-252: the call returns (also when
\* the API refuses the patch: that is logged and swallowed), or an error
\* other than an API error is raised.
MarkOutcomes == {"ok", "raise"}

\* An upfront loop that logs an exception and goes on with the next instance.
UpfrontCordonGoesOn ==
    /\ pc = "upfront_cordon"
    /\ iq # <<>>
    /\ LET i == Head(iq) IN
       IF i \in instance_to_node_cache \/ get_node_by_instance_id(k8s_nodes, i)
       THEN /\ instance_to_node_cache' = instance_to_node_cache \cup {i}
            /\ \E o \in MarkOutcomes :
                  /\ log' = Phase(IF o = "ok" THEN [log EXCEPT !.marked = @ \cup {i}] ELSE log,
                                  i[1], "mark")
                  /\ fatal' = IF o = "raise" THEN "exit1" ELSE fatal
       ELSE /\ fatal' = "exit1"
            /\ UNCHANGED <<instance_to_node_cache, log>>
    /\ iq' = Tail(iq)
    /\ UNCHANGED <<app_config, poll, health, lookup, runs, cloudVars, asg, plan, k8s_nodes, k8s_excluded_nodes,
                   asg_state_dict, gq, pc, su, retry_count, desired_asg_capacity,
                   running_updates>>

\* Lines 180-195: any exception of the upfront loop ends the process.
UpfrontCordon ==
    /\ pc = "upfront_cordon"
    /\ iq # <<>>
    /\ LET i == Head(iq) IN
       IF i \in instance_to_node_cache \/ get_node_by_instance_id(k8s_nodes, i)
       THEN /\ instance_to_node_cache' = instance_to_node_cache \cup {i}
            /\ \E o \in MarkOutcomes :
                  /\ log' = Phase(IF o = "ok" THEN [log EXCEPT !.marked = @ \cup {i}] ELSE log,
                                  i[1], "mark")
                  /\ IF o = "raise"
                     THEN /\ pc' = "exited"
                          /\ fatal' = "exit1"
                          /\ iq' = iq
                     ELSE /\ pc' = pc
                          /\ fatal' = fatal
                          /\ iq' = Tail(iq)
       ELSE /\ pc' = "exited"
            /\ fatal' = "exit1"
            /\ UNCHANGED <<instance_to_node_cache, iq, log>>
    /\ UNCHANGED <<app_config, poll, health, lookup, runs, cloudVars, asg, plan, k8s_nodes, k8s_excluded_nodes,
                   asg_state_dict, gq, su, retry_count, desired_asg_capacity,
                   running_updates>>

\* The upfront loop is over: the sort of lines 198-202.
UpfrontCordonDone ==
    /\ pc = "upfront_cordon"
    /\ iq = <<>>
    /\ pc' = "group"
    /\ gq' = SortedAsgs(app_config.K8S_WORKER_GROUPS_ORDER)
    /\ UNCHANGED <<app_config, poll, health, lookup, runs, cloudVars, asg, plan, k8s_nodes, k8s_excluded_nodes,
                   instance_to_node_cache, asg_state_dict, iq, su, retry_count,
                   desired_asg_capacity, running_updates, fatal, log>>

(***************************************************************************)
(* update_asgs: the per-group loop, lines 205-296.                         *)
(***************************************************************************)
\* Lines 205-212: the next group of the sorted plan, or the normal return.
GroupBegin ==
    /\ pc = "group"
    /\ IF gq = <<>>
       THEN /\ pc' = "returned"
            /\ UNCHANGED <<su, iq>>
       ELSE IF app_config.RUN_MODE \in {1, 3, 4}
            THEN /\ CallScaleUp(Head(gq), "group")
                 /\ UNCHANGED iq
            ELSE /\ pc' = "suspend"
                 /\ iq' = plan[Head(gq)]
                 /\ UNCHANGED su
    /\ UNCHANGED <<app_config, poll, health, lookup, runs, cloudVars, asg, plan, k8s_nodes, k8s_excluded_nodes,
                   instance_to_node_cache, asg_state_dict, gq, retry_count,
                   desired_asg_capacity, running_updates, fatal, log>>

\* Lines 214-239 (run modes 1 and 4): cordon or taint with the fallback to
\* the excluded list.  The fallback first looks into the cache, which line
\* 222 has filled whenever the name was resolved.
Cordon ==
    /\ pc = "cordon"
    /\ iq # <<>>
    /\ LET i == Head(iq) IN
       IF i \in instance_to_node_cache \/ get_node_by_instance_id(k8s_nodes, i)
       THEN /\ instance_to_node_cache' = instance_to_node_cache \cup {i}
            /\ \E o \in MarkOutcomes :
                  log' = Phase(IF o = "ok" THEN [log EXCEPT !.marked = @ \cup {i}] ELSE log,
                               i[1], "mark")
            /\ iq' = Tail(iq)
            /\ UNCHANGED <<pc, fatal>>
       ELSE IF get_node_by_instance_id(k8s_excluded_nodes, i)
            THEN /\ instance_to_node_cache' = instance_to_node_cache \cup {i}
                 /\ iq' = Tail(iq)
                 /\ UNCHANGED <<pc, fatal, log>>
            ELSE /\ pc' = "exited"
                 /\ fatal' = "exit1"
                 /\ UNCHANGED <<instance_to_node_cache, iq, log>>
    /\ UNCHANGED <<app_config, poll, health, lookup, runs, cloudVars, asg, plan, k8s_nodes, k8s_excluded_nodes,
                   asg_state_dict, gq, su, retry_count, desired_asg_capacity,
                   running_updates>>

\* Lines 241-247: the group's scaling processes are suspended and the
\* retirement loop's counters are set.
Suspend ==
    /\ \/ pc = "suspend"
       \/ pc = "cordon" /\ iq = <<>>
    /\ LET g == Head(gq) IN
       /\ suspended' = IF plan[g] # <<>> /\ ~app_config.ASG_USE_TERMINATION_POLICY
                       THEN [suspended EXCEPT ![g] = TRUE] ELSE suspended
       /\ log' = IF plan[g] # <<>> /\ ~app_config.ASG_USE_TERMINATION_POLICY
                 THEN Phase(log, g, "suspend") ELSE log
       /\ desired_asg_capacity' = asg_state_dict[g][1]
       /\ iq' = plan[g]
    /\ running_updates' = 0
    /\ pc' = "retire"
    /\ UNCHANGED <<app_config, poll, health, lookup, runs, DesiredCapacity, MaxSize, Tags, outdated, terminated,
                   asg, plan, k8s_nodes, k8s_excluded_nodes,
                   instance_to_node_cache, asg_state_dict, gq, su, retry_count, fatal>>

\* Lines 250-251: the throttle.  Nothing lowers running_updates.
ThrottleSleep ==
    /\ pc = "retire"
    /\ iq # <<>>
    /\ running_updates >= app_config.K8S_PARALLEL_NODES_COUNT
    /\ pc' = "sleeping"
    /\ UNCHANGED <<app_config, poll, health, lookup, runs, cloudVars, asg, plan, k8s_nodes, k8s_excluded_nodes,
                   instance_to_node_cache, asg_state_dict, gq, iq, su, retry_count,
                   desired_asg_capacity, running_updates, fatal, log>>

ThrottleWake ==
    /\ pc = "sleeping"
    /\ pc' = "retire"
    /\ UNCHANGED <<app_config, poll, health, lookup, runs, cloudVars, asg, plan, k8s_nodes, k8s_excluded_nodes,
                   instance_to_node_cache, asg_state_dict, gq, iq, su, retry_count,
                   desired_asg_capacity, running_updates, fatal, log>>

\* drain_node, k8s.py lines 255-288: every pod is evicted, or an exception
\* is raised.
DrainOutcomes == {"ok", "raise"}

\* Lines 252-259 and 274-284: the name is resolved, the counter is lowered,
\* the node is drained.  An exception of any of them enters the fallback,
\* which finds the instance in the cache whenever the name had been resolved.
Drain ==
    /\ pc = "retire"
    /\ iq # <<>>
    /\ running_updates < app_config.K8S_PARALLEL_NODES_COUNT
    /\ LET i == Head(iq) IN
       IF i \in instance_to_node_cache \/ get_node_by_instance_id(k8s_nodes, i)
       THEN /\ instance_to_node_cache' = instance_to_node_cache \cup {i}
            /\ desired_asg_capacity' = desired_asg_capacity - 1
            /\ UNCHANGED fatal
            /\ \E o \in DrainOutcomes :
                  IF o = "ok"
                  THEN /\ log' = Phase([log EXCEPT !.drained = @ \cup {i}], i[1], "retire")
                       /\ pc' = "delete"
                       /\ iq' = iq
                  ELSE /\ log' = Phase([log EXCEPT !.skipped = @ \cup {i},
                                                    !.evict_failed = @ \cup {i}],
                                       i[1], "retire")
                       /\ pc' = "retire"
                       /\ iq' = Tail(iq)
       ELSE IF get_node_by_instance_id(k8s_excluded_nodes, i)
            THEN /\ instance_to_node_cache' = instance_to_node_cache \cup {i}
                 /\ log' = [log EXCEPT !.skipped = @ \cup {i}]
                 /\ iq' = Tail(iq)
                 /\ UNCHANGED <<pc, fatal, desired_asg_capacity>>
            ELSE /\ pc' = "raised"
                 /\ fatal' = "RollingUpdateException"
                 /\ UNCHANGED <<instance_to_node_cache, iq, log, desired_asg_capacity>>
    /\ UNCHANGED <<app_config, poll, health, lookup, runs, cloudVars, asg, plan, k8s_nodes, k8s_excluded_nodes,
                   asg_state_dict, gq, su, retry_count, running_updates>>

\* Line 260: delete_node, k8s.py lines 193-210.  It always returns: a refusal
\* of the API is logged and swallowed.
Delete ==
    /\ pc = "delete"
    /\ log' = [log EXCEPT !.deleted = @ \cup {Head(iq)}]
    /\ pc' = "save_tag"
    /\ UNCHANGED <<app_config, poll, health, lookup, runs, DesiredCapacity, MaxSize, Tags, suspended, outdated,
                   terminated, asg, plan, k8s_nodes, k8s_excluded_nodes,
                   instance_to_node_cache, asg_state_dict, gq, iq, su, retry_count,
                   desired_asg_capacity, running_updates, fatal>>

\* Line 261: the running counter is written to the desired-capacity tag.
SaveDesiredTag ==
    /\ pc = "save_tag"
    /\ Tags' = [Tags EXCEPT ![Head(gq)] = SaveTag(@, DESIRED, desired_asg_capacity)]
    /\ IF app_config.ASG_USE_TERMINATION_POLICY
       THEN /\ pc' = "retire"
            /\ iq' = Tail(iq)
       ELSE /\ pc' = "terminate"
            /\ iq' = iq
    /\ UNCHANGED <<app_config, poll, health, lookup, runs, DesiredCapacity, MaxSize, suspended, outdated,
                   terminated, asg, plan, k8s_nodes, k8s_excluded_nodes,
                   instance_to_node_cache, asg_state_dict, gq, su, retry_count,
                   desired_asg_capacity, running_updates, fatal, log>>

\* Lines 263-273: terminate_instance_in_asg reports success, or failure or
\* timeout; either way the throttle counter goes up.
Terminate ==
    /\ pc = "terminate"
    /\ LET i == Head(iq) IN
       /\ \E ok \in BOOLEAN :
             terminated' = IF ok THEN terminated \cup {i} ELSE terminated
       /\ log' = [log EXCEPT !.terminated = @ \cup {i}]
    /\ running_updates' = running_updates + 1
    /\ iq' = Tail(iq)
    /\ pc' = "retire"
    /\ UNCHANGED <<app_config, poll, health, lookup, runs, DesiredCapacity, MaxSize, Tags, suspended, outdated,
                   asg, plan, k8s_nodes, k8s_excluded_nodes,
                   instance_to_node_cache, asg_state_dict, gq, su, retry_count,
                   desired_asg_capacity, fatal>>

\* A cleanup that scales the group to the target of the scale-up instead of
\* the original capacity.
ScaleDownToTarget ==
    /\ pc = "retire"
    /\ iq = <<>>
    /\ LET g == Head(gq) IN
       /\ DesiredCapacity' = [DesiredCapacity EXCEPT ![g] = asg_state_dict[g][1]]
       /\ MaxSize' = [MaxSize EXCEPT ![g] = Max({asg_state_dict[g][1], asg_state_dict[g][3]})]
       /\ log' = Phase([log EXCEPT !.scaled_down = @ \cup {g}], g, "scale_down")
    /\ pc' = IF app_config.ASG_USE_TERMINATION_POLICY THEN "delete_tag1" ELSE "resume"
    /\ UNCHANGED <<app_config, poll, health, lookup, runs, Tags, suspended, outdated, terminated, asg,
                   plan, k8s_nodes, k8s_excluded_nodes, instance_to_node_cache,
                   asg_state_dict, gq, iq, su, retry_count, desired_asg_capacity,
                   running_updates, fatal>>

\* A cleanup that leaves the group at the capacity it has.
ScaleDownKeepsCapacity ==
    /\ pc = "retire"
    /\ iq = <<>>
    /\ log' = Phase([log EXCEPT !.scaled_down = @ \cup {Head(gq)}], Head(gq), "scale_down")
    /\ pc' = IF app_config.ASG_USE_TERMINATION_POLICY THEN "delete_tag1" ELSE "resume"
    /\ UNCHANGED <<app_config, poll, health, lookup, runs, cloudVars, asg,
                   plan, k8s_nodes, k8s_excluded_nodes, instance_to_node_cache,
                   asg_state_dict, gq, iq, su, retry_count, desired_asg_capacity,
                   running_updates, fatal>>

\* Lines 286-289: the group is scaled back to the recorded original state.
ScaleDown ==
    /\ pc = "retire"
    /\ iq = <<>>
    /\ LET g == Head(gq) IN
       /\ DesiredCapacity' = [DesiredCapacity EXCEPT ![g] = asg_state_dict[g][2]]
       /\ MaxSize' = [MaxSize EXCEPT ![g] = asg_state_dict[g][3]]
       /\ log' = Phase([log EXCEPT !.scaled_down = @ \cup {g}], g, "scale_down")
    /\ pc' = IF app_config.ASG_USE_TERMINATION_POLICY THEN "delete_tag1" ELSE "resume"
    /\ UNCHANGED <<app_config, poll, health, lookup, runs, Tags, suspended, outdated, terminated, asg,
                   plan, k8s_nodes, k8s_excluded_nodes, instance_to_node_cache,
                   asg_state_dict, gq, iq, su, retry_count, desired_asg_capacity,
                   running_updates, fatal>>

\* A cleanup that leaves the scaling processes as they are.
ResumeSkipped ==
    /\ pc = "resume"
    /\ log' = Phase(log, Head(gq), "resume")
    /\ pc' = "delete_tag1"
    /\ UNCHANGED <<app_config, poll, health, lookup, runs, cloudVars,
                   asg, plan, k8s_nodes, k8s_excluded_nodes,
                   instance_to_node_cache, asg_state_dict, gq, iq, su, retry_count,
                   desired_asg_capacity, running_updates, fatal>>

\* Lines 290-291.
Resume ==
    /\ pc = "resume"
    /\ suspended' = [suspended EXCEPT ![Head(gq)] = FALSE]
    /\ log' = Phase(log, Head(gq), "resume")
    /\ pc' = "delete_tag1"
    /\ UNCHANGED <<app_config, poll, health, lookup, runs, DesiredCapacity, MaxSize, Tags, outdated, terminated,
                   asg, plan, k8s_nodes, k8s_excluded_nodes,
                   instance_to_node_cache, asg_state_dict, gq, iq, su, retry_count,
                   desired_asg_capacity, running_updates, fatal>>

\* Lines 292-295: the three tags are deleted, one call each.
DeleteTags ==
    /\ pc \in {"delete_tag1", "delete_tag2", "delete_tag3"}
    /\ LET g == Head(gq) IN
       CASE pc = "delete_tag1" ->
                 /\ Tags' = [Tags EXCEPT ![g] = DeleteTag(@, DESIRED)]
                 /\ pc' = "delete_tag2"
                 /\ gq' = gq
         [] pc = "delete_tag2" ->
                 /\ Tags' = [Tags EXCEPT ![g] = DeleteTag(@, ORIG)]
                 /\ pc' = "delete_tag3"
                 /\ gq' = gq
         [] pc = "delete_tag3" ->
                 /\ Tags' = [Tags EXCEPT ![g] = DeleteTag(@, ORIGMAX)]
                 /\ pc' = "group"
                 /\ gq' = Tail(gq)
    /\ log' = Phase(log, Head(gq), "delete_tags")
    /\ UNCHANGED <<app_config, poll, health, lookup, runs, DesiredCapacity, MaxSize, suspended, outdated,
                   terminated, asg, plan, k8s_nodes, k8s_excluded_nodes,
                   instance_to_node_cache, asg_state_dict, iq, su, retry_count,
                   desired_asg_capacity, running_updates, fatal>>

(***************************************************************************)
(* lib/k8s.py: get_k8s_nodes and the polling helpers k8s_nodes_count and   *)
(* k8s_nodes_ready.  One action is one turn of the helper's loop: a poll   *)
(* of the cluster and the test of what it answered.                        *)
(***************************************************************************)
MaxNodes == 2           \* longest node list the cluster answers
MaxPollRetry == 3       \* largest max_retry drawn (GLOBAL_MAX_RETRY)

LabelKeys == {"x"}
ReadyStatuses == {"True", "False", "Unknown"}

\* node.status.conditions: no condition, a Ready condition of each status, or
\* a condition of another type only.
NodeConditions ==
    { <<>>, << [type |-> "DiskPressure", status |-> "False"] >> }
    \cup { << [type |-> "Ready", status |-> s] >> : s \in ReadyStatuses }

Nodes == [labels : SUBSET LabelKeys, conditions : NodeConditions]

\* response.items of list_node.
Responses == UNION { [1..n -> Nodes] : n \in 0..MaxNodes }

\* EXCLUDE_NODE_LABEL_KEYS: None, or a list of label keys.
ExcludeSettings == { [is_none |-> TRUE, keys |-> {}], [is_none |-> FALSE, keys |-> LabelKeys] }

\* Lines 57-71 without the filter: every node counts as included.
get_k8s_nodes_unfiltered(exclude_node_label_keys, items) ==
    [nodes |-> items, excluded_nodes |-> <<>>]

\* Lines 57-71: the nodes carrying none of the keys, and the others.
get_k8s_nodes(exclude_node_label_keys, items) ==
    IF ~exclude_node_label_keys.is_none
    THEN [nodes |-> SelectSeq(items, LAMBDA node :
                        \A key \in exclude_node_label_keys.keys : key \notin node.labels),
          excluded_nodes |-> SelectSeq(items, LAMBDA node :
                        ~(\A key \in exclude_node_label_keys.keys : key \notin node.labels))]
    ELSE [nodes |-> items, excluded_nodes |-> <<>>]

\* Lines 305-313: healthy_nodes after the scan of one poll's nodes.  Only a
\* Ready condition of status "False" clears it.
HealthyNodes(nodes) ==
    ~ \E n \in 1..Len(nodes) : \E c \in 1..Len(nodes[n].conditions) :
          /\ nodes[n].conditions[c].type = "Ready"
          /\ nodes[n].conditions[c].status = "False"

\* The calls: retry_count starts at 1 and the flag at False (lines 298-299,
\* 330-331).
PollCalls ==
    { [NoPoll EXCEPT !.fn = "k8s_nodes_count", !.pc = "loop", !.max_retry = m,
                     !.desired_node_count = n, !.exclude_node_label_keys = e,
                     !.retry_count = 1] :
          m \in 0..MaxPollRetry, n \in 0..MaxNodes, e \in ExcludeSettings }
    \cup
    { [NoPoll EXCEPT !.fn = "k8s_nodes_ready", !.pc = "loop", !.max_retry = m,
                     !.exclude_node_label_keys = e, !.retry_count = 1] :
          m \in 0..MaxPollRetry, e \in ExcludeSettings }

\* Everything but the polling helper's own state.
mainVars == <<app_config, runs, cloudVars, runVars>>

\* k8s_nodes_count, lines 332-343: one turn of the loop.
k8s_nodes_count ==
    /\ poll.fn = "k8s_nodes_count"
    /\ poll.pc = "loop"
    /\ poll.retry_count < poll.max_retry
    /\ \E items \in Responses :
          LET nodes == get_k8s_nodes(poll.exclude_node_label_keys, items).nodes
              nodes_online == ~(Len(nodes) < poll.desired_node_count)
          IN poll' = [poll EXCEPT !.retry_count = @ + 1,
                                  !.result = nodes_online,
                                  !.items = items,
                                  !.polls = @ + 1,
                                  !.pc = IF nodes_online THEN "done" ELSE "loop"]
    /\ UNCHANGED <<health, lookup, mainVars>>

\* k8s_nodes_ready, lines 300-321: one turn of the loop.
k8s_nodes_ready ==
    /\ poll.fn = "k8s_nodes_ready"
    /\ poll.pc = "loop"
    /\ poll.retry_count < poll.max_retry
    /\ \E items \in Responses :
          LET nodes == get_k8s_nodes(poll.exclude_node_label_keys, items).nodes
              healthy_nodes == HealthyNodes(nodes)
          IN poll' = [poll EXCEPT !.retry_count = @ + 1,
                                  !.result = healthy_nodes,
                                  !.items = items,
                                  !.polls = @ + 1,
                                  !.pc = IF healthy_nodes THEN "done" ELSE "loop"]
    /\ UNCHANGED <<health, lookup, mainVars>>

\* Lines 300 and 322, 332 and 344: the budget is used up and the flag is
\* returned as the last turn left it.
PollExhausted ==
    /\ poll.pc = "loop"
    /\ poll.retry_count >= poll.max_retry
    /\ poll' = [poll EXCEPT !.pc = "done"]
    /\ UNCHANGED <<health, lookup, mainVars>>

(***************************************************************************)
(* The operator: a kill of the process between any two calls, and a new    *)
(* invocation after a kill or a fatal end.                                 *)
(***************************************************************************)
Ended == pc \in {"returned", "raised", "exited", "killed"}

\* What a process holds in memory is lost with it.
ForgetRun ==
    /\ asg' = [g \in Groups |-> [DesiredCapacity |-> 0, MaxSize |-> 0, Tags |-> NoTags]]
    /\ plan' = [g \in Groups |-> <<>>]
    /\ k8s_nodes' = {}
    /\ k8s_excluded_nodes' = {}
    /\ instance_to_node_cache' = {}
    /\ asg_state_dict' = [g \in Groups |-> NoTriple]
    /\ gq' = <<>>
    /\ iq' = <<>>
    /\ su' = NoCall
    /\ retry_count' = 0
    /\ desired_asg_capacity' = 0
    /\ running_updates' = 0
    /\ fatal' = ""
    /\ log' = EmptyLog

Kill ==
    /\ ~Ended
    /\ pc' = "killed"
    /\ ForgetRun
    /\ UNCHANGED <<app_config, poll, health, lookup, runs, cloudVars>>

\* The tool is invoked again; `runs` stops counting at MaxRuns.
Rerun ==
    /\ pc \in {"raised", "exited", "killed"}
    /\ runs' = IF runs < MaxRuns THEN runs + 1 ELSE runs
    /\ pc' = "plan"
    /\ ForgetRun
    /\ UNCHANGED <<app_config, poll, health, lookup, cloudVars>>

Restart ==
    /\ runs < MaxRuns
    /\ Rerun

(***************************************************************************)
(* main, lines 300-342, around update_asgs: what it does with the external *)
(* autoscaler and the exit code of the process, from the way update_asgs   *)
(* ended ("returned", "raised": an exception, "exited": exit(1) inside     *)
(* update_asgs, which raises SystemExit and passes `except Exception`).    *)
(***************************************************************************)
\* Lines 323-342 with the resume of lines 332-334 also issued on the way out
\* of a failure.
main_resuming(dry_run, K8S_AUTOSCALER_ENABLED, outcome) ==
    IF dry_run
    THEN [autoscaler |-> <<>>, exit_code |-> 0]
    ELSE [autoscaler |-> IF K8S_AUTOSCALER_ENABLED THEN <<"pause", "resume">> ELSE <<>>,
          exit_code |-> IF outcome = "returned" THEN 0 ELSE 1]

main(dry_run, K8S_AUTOSCALER_ENABLED, outcome) ==
    IF dry_run
    THEN [autoscaler |-> <<>>, exit_code |-> 0]
    ELSE LET paused == IF K8S_AUTOSCALER_ENABLED THEN <<"pause">> ELSE <<>>
         IN IF outcome = "returned"
            THEN [autoscaler |-> IF K8S_AUTOSCALER_ENABLED
                                 THEN Append(paused, "resume") ELSE paused,
                  exit_code |-> 0]
            ELSE [autoscaler |-> paused, exit_code |-> 1]

\* One invocation of the tool.
Next ==
    \/ Plan
    \/ ScaleUpResume
    \/ ScaleUpZeroTags
    \/ ScaleUpFreshTags
    \/ ScaleUpScale
    \/ HealthAttempt
    \/ HealthExhausted
    \/ UpfrontScale
    \/ GetNodes
    \/ UpfrontCordon
    \/ UpfrontCordonDone
    \/ GroupBegin
    \/ Cordon
    \/ Suspend
    \/ ThrottleSleep
    \/ ThrottleWake
    \/ Drain
    \/ Delete
    \/ SaveDesiredTag
    \/ Terminate
    \/ ScaleDown
    \/ Resume
    \/ DeleteTags

Spec == Init /\ [][Next]_vars

(***************************************************************************)
(* Invocations one after the other: the operator may kill the process      *)
(* between any two calls, and reruns the tool after a kill or a fatal end. *)
(* The configuration is narrowed to keep the state space small: both       *)
(* groups are selected, in plan order, one health attempt is allowed, one  *)
(* node is retired at a time and a batch size, if any, is 1.  Run mode 4   *)
(* is left out: it differs from run mode 1 in the planner only.            *)
(***************************************************************************)
ResumeConfigs ==
    { c \in Configs : /\ c.RUN_MODE \in 1..3
                      /\ c.K8S_WORKER_GROUPS_ORDER = << <<"w">> >>
                      /\ c.CLUSTER_HEALTH_RETRY = 1
                      /\ c.K8S_PARALLEL_NODES_COUNT = 1
                      /\ c.BATCH_SIZE <= 1 }

ResumeInit ==
    /\ app_config \in ResumeConfigs
    /\ poll = NoPoll
    /\ health = NoValidation
    /\ lookup = NoLookup
    /\ CleanCloud

ResumeNext ==
    \/ Next
    \/ Kill
    \/ Restart

ResumeSpec == ResumeInit /\ [][ResumeNext]_vars

(***************************************************************************)
(* The polling helpers alone, called with every budget, count and          *)
(* exclusion setting, against every answer of the cluster.                 *)
(***************************************************************************)
PollInit ==
    /\ app_config \in { c \in ResumeConfigs :
                          /\ c.RUN_MODE = 1
                          /\ ~c.ASG_USE_TERMINATION_POLICY
                          /\ c.BATCH_SIZE = 0 }
    /\ poll \in PollCalls
    /\ health = NoValidation
    /\ lookup = NoLookup
    /\ CleanCloud
    /\ \A g \in Groups : outdated[g] = <<>>

PollNext ==
    \/ k8s_nodes_count
    \/ k8s_nodes_ready
    \/ PollExhausted

PollSpec == PollInit /\ [][PollNext]_vars

(***************************************************************************)
(* validate_cluster_health alone, lines 15-54, called with every budget    *)
(* against every combination of answers of its four checks.                *)
(***************************************************************************)
\* 1: is_asg_scaled, 2: is_asg_healthy, 3: k8s_nodes_count, 4: k8s_nodes_ready.
Checks == 1..4
CheckAnswers == [Checks -> BOOLEAN]

\* Lines 29-47 from check k on: a check is called, and the next one only
\* when it answered true (`continue` otherwise).
RECURSIVE EvaluateFrom(_, _)
EvaluateFrom(answers, k) ==
    IF k > 4 THEN <<>>
    ELSE IF answers[k] THEN <<k>> \o EvaluateFrom(answers, k + 1)
    ELSE <<k>>

\* An attempt that calls all four checks whatever they answer.
EvaluateEveryCheck(answers) == <<1, 2, 3, 4>>

\* The checks one attempt calls, in the order of the calls.
EvaluateChecks(answers) == EvaluateFrom(answers, 1)

\* Lines 20-50: one turn of the loop.  The turn reaches the return of line
\* 50 when no check it called answered false.
validate_cluster_health ==
    /\ health.pc = "loop"
    /\ health.retry_count < health.cluster_health_retry
    /\ \E answers \in CheckAnswers :
          LET evaluated == EvaluateChecks(answers)
              passed == \A j \in 1..Len(evaluated) : answers[evaluated[j]]
          IN health' = [health EXCEPT
                           !.retry_count = @ + 1,
                           !.attempts = Append(@, [answers |-> answers,
                                                   evaluated |-> evaluated]),
                           !.pc = IF passed THEN "returned" ELSE "loop"]
    /\ UNCHANGED <<poll, lookup, mainVars>>

\* Lines 52-54: the loop is left without a return.
HealthCheckFailed ==
    /\ health.pc = "loop"
    /\ ~(health.retry_count < health.cluster_health_retry)
    /\ health' = [health EXCEPT !.pc = "raised"]
    /\ UNCHANGED <<poll, lookup, mainVars>>

HealthInit ==
    /\ app_config \in { c \in ResumeConfigs :
                          /\ c.RUN_MODE = 1
                          /\ ~c.ASG_USE_TERMINATION_POLICY
                          /\ c.BATCH_SIZE = 0 }
    /\ poll = NoPoll
    /\ health \in { [NoValidation EXCEPT !.pc = "loop", !.cluster_health_retry = r] :
                       r \in 0..MaxHealthRetry }
    /\ lookup = NoLookup
    /\ CleanCloud
    /\ \A g \in Groups : outdated[g] = <<>>

HealthNext ==
    \/ validate_cluster_health
    \/ HealthCheckFailed

HealthSpec == HealthInit /\ [][HealthNext]_vars

(***************************************************************************)
(* get_node_by_instance_id alone, k8s.py lines 74-122, called with every   *)
(* number of retries against every answer of the cluster.                  *)
(***************************************************************************)
MaxLookupRetries == 3   \* largest `retries` drawn (the default of line 74)

\* The instances of two nodes, either of which may be the one looked for:
\* each one's node is in the included list, in the excluded list, or not
\* registered.
LookupIds == { <<1, 1>>, <<1, 2>> }
LookupAnswers == [LookupIds -> NodeLocations]

\* The argument k8s_nodes: the list the caller passed, or, after line 120,
\* the value of get_k8s_nodes(): the pair (nodes, excluded_nodes).
PassedList(loc) == [refreshed |-> FALSE, nodes |-> IncludedNodes(loc), excluded |-> {}]
RefreshedPair(loc) ==
    [refreshed |-> TRUE, nodes |-> IncludedNodes(loc), excluded |-> ExcludedNodes(loc)]

\* Lines 91-106: the elements of k8s_nodes are gone through; an element that
\* is a list is skipped (lines 95-97), so a pair never yields a match.
MatchIn(k8s_nodes_arg, instance_id) ==
    ~k8s_nodes_arg.refreshed /\ instance_id \in k8s_nodes_arg.nodes

\* Lines 82-120: one turn of the loop.  After a miss the warning of line 115
\* reads node.spec of every element of k8s_nodes, which raises
\* AttributeError when the elements are the two lists of a pair.
get_node_by_instance_id_turn ==
    /\ lookup.pc = "loop"
    /\ lookup.attempt < lookup.retries
    /\ IF MatchIn(lookup.k8s_nodes, lookup.instance_id)
       THEN lookup' = [lookup EXCEPT !.pc = "returned", !.node_name = "found"]
       ELSE IF lookup.k8s_nodes.refreshed
            THEN lookup' = [lookup EXCEPT !.pc = "raised", !.error = "AttributeError"]
            ELSE IF lookup.attempt + 1 < lookup.retries
                 THEN \E loc \in LookupAnswers :
                         lookup' = [lookup EXCEPT !.attempt = @ + 1,
                                                  !.k8s_nodes = RefreshedPair(loc),
                                                  !.fetched = Append(@, IncludedNodes(loc))]
                 ELSE lookup' = [lookup EXCEPT !.attempt = @ + 1]
    /\ UNCHANGED <<poll, health, mainVars>>

\* Line 122: the loop is left without a return.
LookupExhausted ==
    /\ lookup.pc = "loop"
    /\ ~(lookup.attempt < lookup.retries)
    /\ lookup' = [lookup EXCEPT !.pc = "raised", !.error = "NotFound"]
    /\ UNCHANGED <<poll, health, mainVars>>

LookupInit ==
    /\ app_config \in { c \in ResumeConfigs :
                          /\ c.RUN_MODE = 1
                          /\ ~c.ASG_USE_TERMINATION_POLICY
                          /\ c.BATCH_SIZE = 0 }
    /\ poll = NoPoll
    /\ health = NoValidation
    /\ lookup \in { [NoLookup EXCEPT !.pc = "loop", !.retries = r, !.instance_id = i,
                                     !.k8s_nodes = PassedList(loc),
                                     !.fetched = <<IncludedNodes(loc)>>] :
                       r \in 1..MaxLookupRetries, i \in LookupIds, loc \in LookupAnswers }
    /\ CleanCloud
    /\ \A g \in Groups : outdated[g] = <<>>

LookupNext ==
    \/ get_node_by_instance_id_turn
    \/ LookupExhausted

LookupSpec == LookupInit /\ [][LookupNext]_vars

(***************************************************************************)
(* A rollout that is killed during its fresh scale-up and then rerun until *)
(* a run comes to its end, in an environment that is eventually healthy:   *)
(* every node is registered and included, and a validation that can pass   *)
(* does pass in the end.  Run mode 1, no termination policy, both groups   *)
(* selected.                                                               *)
(***************************************************************************)
RecoveryConfigs ==
    { c \in Configs : /\ c.K8S_WORKER_GROUPS_ORDER = << <<"w">> >>
                      /\ c.CLUSTER_HEALTH_RETRY = 1
                      /\ c.RUN_MODE = 1
                      /\ ~c.ASG_USE_TERMINATION_POLICY
                      /\ c.K8S_PARALLEL_NODES_COUNT = MaxParallel
                      /\ c.BATCH_SIZE <= 1 }

RecoveryInit ==
    /\ app_config \in RecoveryConfigs
    /\ poll = NoPoll
    /\ health = NoValidation
    /\ lookup = NoLookup
    /\ CleanCloud

\* The first invocation is killed somewhere in the fresh scale-up of a group.
KillInFreshScaleUp ==
    /\ runs = 1
    /\ su.path = "fresh"
    /\ Kill

\* The cluster lists every planned instance's node as included.
GetNodesAllIncluded ==
    /\ GetNodes
    /\ k8s_nodes' = PlannedInstances(PlanOrder)

\* A validation attempt for the group that passes.
HealthPass(g) ==
    /\ su.g = g
    /\ HealthAttempt
    /\ log'.validated # log.validated

RecoveryRun ==
    \/ Plan
    \/ ScaleUpResume
    \/ ScaleUpZeroTags
    \/ ScaleUpFreshTags
    \/ ScaleUpScale
    \/ HealthAttempt
    \/ HealthExhausted
    \/ GetNodesAllIncluded
    \/ GroupBegin
    \/ Cordon
    \/ Suspend
    \/ Drain
    \/ Delete
    \/ SaveDesiredTag
    \/ Terminate
    \/ ScaleDown
    \/ Resume
    \/ DeleteTags
    \/ Rerun

RecoveryNext ==
    \/ RecoveryRun
    \/ KillInFreshScaleUp

RecoverySpec ==
    /\ RecoveryInit
    /\ [][RecoveryNext]_vars
    /\ WF_vars(RecoveryRun)
    /\ \A g \in Groups : SF_vars(HealthPass(g))

(***************************************************************************)
(* One invocation in which every call to the cloud and to the cluster      *)
(* returns: the tool keeps taking steps for as long as it has one to take. *)
(* Both groups are selected, in plan order; one health attempt is allowed  *)
(* and no batch size is configured.                                        *)
(***************************************************************************)
TerminationConfigs ==
    { c \in Configs : /\ c.K8S_WORKER_GROUPS_ORDER = << <<"w">> >>
                      /\ c.CLUSTER_HEALTH_RETRY = 1
                      /\ c.BATCH_SIZE = 0 }

TerminationInit ==
    /\ app_config \in TerminationConfigs
    /\ poll = NoPoll
    /\ health = NoValidation
    /\ lookup = NoLookup
    /\ CleanCloud

TerminationSpec ==
    /\ TerminationInit
    /\ [][Next]_vars
    /\ WF_vars(Next)

(***************************************************************************)
(* Properties.                                                             *)
(***************************************************************************)
\* scale_up_asg has returned for the group in this invocation.
Returned(g) == asg_state_dict[g] # NoTriple

\* The desired capacities scale_up_asg has requested for the group.
Requested(g) == [k \in 1..Len(log.scale_calls[g]) |-> log.scale_calls[g][k][1]]

IsPrefix(p, q) == Len(p) <= Len(q) /\ SubSeq(q, 1, Len(p)) = p

SeqToSet(q) == { q[k] : k \in 1..Len(q) }

\* C1: whenever update_asgs returns normally, every group of the plan has
\* the DesiredCapacity and the MaxSize it had before the run and carries none
\* of the three state tags.
C1_RestoredOnReturn ==
    pc = "returned" =>
        \A g \in Groups :
            /\ DesiredCapacity[g] = asg[g].DesiredCapacity
            /\ MaxSize[g] = asg[g].MaxSize
            /\ DOMAIN Tags[g] = {}

\* C2: a scale_up_asg call that finds the three tags of a previous run on
\* the group requests no capacity (the group keeps its DesiredCapacity and
\* MaxSize), returns exactly the three tag values, and, when instances are
\* outdated, has validated the cluster health once against the tagged
\* desired capacity before it returns.
C2_ResumeDoesNotRescale ==
    \A g \in Groups :
        LET tags == log.entry_tags[g] IN
        AllTags(tags) =>
            /\ log.scale_calls[g] = <<>>
            /\ g \notin log.scaled_down =>
                  /\ DesiredCapacity[g] = asg[g].DesiredCapacity
                  /\ MaxSize[g] = asg[g].MaxSize
            /\ Returned(g) =>
                  /\ asg_state_dict[g] = <<tags[DESIRED], tags[ORIG], tags[ORIGMAX]>>
                  /\ Len(plan[g]) # 0 => log.validated[g] = <<tags[DESIRED]>>

C2_Witness ==
    \E g \in Groups :
        /\ Returned(g)
        /\ AllTags(log.entry_tags[g])
        /\ Len(plan[g]) # 0
        /\ log.validated[g] # <<>>

\* C3 as claimed: with no outdated instance scale_up_asg requests no capacity
\* and leaves DesiredCapacity and MaxSize alone; the triple it returns has
\* target = original, is the tag values when all three tags were on the group
\* and the current desired capacity and max size otherwise, and is what the
\* three tags of the group say afterwards.
C3_ZeroOutdated ==
    \A g \in Groups :
        (Returned(g) /\ Len(plan[g]) = 0) =>
            LET t == asg_state_dict[g]
                entry == log.entry_tags[g]
            IN /\ log.scale_calls[g] = <<>>
               /\ t[1] = t[2]
               /\ IF AllTags(entry)
                  THEN t = <<entry[DESIRED], entry[ORIG], entry[ORIGMAX]>>
                  ELSE t = <<asg[g].DesiredCapacity, asg[g].DesiredCapacity, asg[g].MaxSize>>
               /\ g \notin log.scaled_down =>
                     /\ DesiredCapacity[g] = asg[g].DesiredCapacity
                     /\ MaxSize[g] = asg[g].MaxSize
                     /\ AllTags(Tags[g])
                     /\ <<Tags[g][DESIRED], Tags[g][ORIG], Tags[g][ORIGMAX]>> = t

\* C3 as amended: the same, but target = original is promised only for the
\* triple the call writes itself; tags found on the group are returned as
\* they are, whatever desired capacity they record.
C3_ZeroOutdatedKeepsTags ==
    \A g \in Groups :
        (Returned(g) /\ Len(plan[g]) = 0) =>
            LET t == asg_state_dict[g]
                entry == log.entry_tags[g]
            IN /\ log.scale_calls[g] = <<>>
               /\ IF AllTags(entry)
                  THEN t = <<entry[DESIRED], entry[ORIG], entry[ORIGMAX]>>
                  ELSE /\ t = <<asg[g].DesiredCapacity, asg[g].DesiredCapacity, asg[g].MaxSize>>
                       /\ t[1] = t[2]
               /\ g \notin log.scaled_down =>
                     /\ DesiredCapacity[g] = asg[g].DesiredCapacity
                     /\ MaxSize[g] = asg[g].MaxSize
                     /\ AllTags(Tags[g])
                     /\ <<Tags[g][DESIRED], Tags[g][ORIG], Tags[g][ORIGMAX]>> = t

C3_Witness ==
    \E g \in Groups :
        /\ Returned(g)
        /\ Len(plan[g]) = 0
        /\ AllTags(log.entry_tags[g])
        /\ asg_state_dict[g][1] # asg_state_dict[g][2]
        /\ g \notin log.scaled_down

\* The steps from capacity c to target t in batches of b (0: no batch size).
RECURSIVE BatchSteps(_, _, _)
BatchSteps(c, t, b) ==
    IF b = 0 \/ c + b >= t THEN <<t>>
    ELSE <<c + b>> \o BatchSteps(c + b, t, b)

\* C4: a fresh scale-up from C to T = C + outdated requests C+B, C+2B, ..., T
\* (the last step clipped to T; the single value T without a batch size), and
\* every requested value is validated before the next one is requested.
C4_BatchedScaleUp ==
    \A g \in Groups :
        LET c == asg[g].DesiredCapacity
            steps == BatchSteps(c, c + Len(plan[g]), app_config.BATCH_SIZE)
            req == Requested(g)
        IN log.scale_calls[g] # <<>> =>
              /\ IsPrefix(req, steps)
              /\ log.validated[g] =
                    IF su.g = g /\ (pc = "su_health" \/ fatal = "HealthCheck")
                    THEN SubSeq(req, 1, Len(req) - 1) ELSE req
              /\ Returned(g) => req = steps

C4_Witness ==
    \E g \in Groups :
        /\ Returned(g)
        /\ Len(log.scale_calls[g]) = 2
        /\ log.validated[g] = Requested(g)

\* C5: at every turn of the retirement loop the running counter is the
\* target returned by scale_up_asg minus the number of instances of the group
\* retired so far (drained and deleted), and neither the counter nor the
\* desired-capacity tag is negative.
C5_CounterTracksRetired ==
    pc = "retire" =>
        LET g == Head(gq)
            retired == { i \in log.drained \cap log.deleted : i[1] = g }
        IN /\ desired_asg_capacity = asg_state_dict[g][1] - Cardinality(retired)
           /\ desired_asg_capacity >= 0
           /\ HasTag(Tags[g], DESIRED) => Tags[g][DESIRED] >= 0

\* C6: an outdated instance whose node is only in the excluded list never
\* ends the run (no exit, no RollingUpdateException) in any phase that
\* resolves node names; an instance whose node is in neither list does.
C6_ExcludedNeverFatal ==
    /\ (fatal \in {"exit1", "RollingUpdateException"} /\ iq # <<>>)
          => Head(iq) \notin k8s_excluded_nodes
    /\ \A i \in instance_to_node_cache \cup log.skipped :
          i \in k8s_nodes \cup k8s_excluded_nodes

\* C9 as claimed: when validate_cluster_health exhausts its budget during the
\* scale-up of a group, no node of that group or of a group after it has been
\* cordoned, tainted, drained, deleted or terminated by the run.
C9_NothingTouchedOnHealthAbort ==
    fatal = "HealthCheck" =>
        \A i \in log.marked \cup log.drained \cup log.deleted \cup log.terminated :
            i[1] \notin SeqToSet(gq)

\* C9 as amended: that holds in run modes 1, 2 and 4; in run mode 3 the
\* upfront phase has cordoned or tainted the nodes already, and no node of
\* the group or of a later group has been drained, deleted or terminated.
C9_NothingRetiredOnHealthAbort ==
    fatal = "HealthCheck" =>
        /\ \A i \in log.drained \cup log.deleted \cup log.terminated :
              i[1] \notin SeqToSet(gq)
        /\ app_config.RUN_MODE # 3 =>
              \A i \in log.marked : i[1] \notin SeqToSet(gq)
        /\ pc = "raised"

C9_Witness ==
    /\ fatal = "HealthCheck"
    /\ log.terminated # {}
    /\ Len(gq) = 1
    /\ plan[Head(gq)] # <<>>

\* The nodes of a list_node answer that carry no exclusion label key.
Included(items, exclude_node_label_keys) ==
    { k \in 1..Len(items) :
         exclude_node_label_keys.is_none
         \/ items[k].labels \cap exclude_node_label_keys.keys = {} }

\* The node has a Ready condition and its status is "True".
IsReady(node) ==
    \E c \in 1..Len(node.conditions) :
        node.conditions[c].type = "Ready" /\ node.conditions[c].status = "True"

\* C7: k8s_nodes_ready returns true only when every included node of its
\* last poll has a Ready condition of status "True".
C7_ReadyMeansAllReady ==
    (poll.fn = "k8s_nodes_ready" /\ poll.pc = "done" /\ poll.result) =>
        /\ poll.polls >= 1
        /\ \A k \in Included(poll.items, poll.exclude_node_label_keys) :
              IsReady(poll.items[k])

\* C8: k8s_nodes_count(N) returns true only if a poll of the call saw at
\* least N included nodes (excluded nodes do not count); with a budget of 0
\* or 1 no poll is made and it returns false.
C8_CountMeansReached ==
    (poll.fn = "k8s_nodes_count" /\ poll.pc = "done") =>
        /\ poll.result =>
              /\ poll.polls >= 1
              /\ Cardinality(Included(poll.items, poll.exclude_node_label_keys))
                    >= poll.desired_node_count
        /\ poll.max_retry <= 1 => (poll.polls = 0 /\ ~poll.result)

C8_Witness ==
    /\ poll.fn = "k8s_nodes_count"
    /\ poll.pc = "done"
    /\ poll.result
    /\ poll.polls = 2
    /\ poll.desired_node_count = 1
    /\ Len(poll.items) = 2
    /\ Cardinality(Included(poll.items, poll.exclude_node_label_keys)) = 1

\* The groups are as they were before the first run and carry no state tag.
Restored ==
    \A g \in Groups :
        /\ DesiredCapacity[g] = InitialDesiredCapacity[g]
        /\ MaxSize[g] = InitialMaxSize[g]
        /\ Tags[g] = NoTags

\* C10: after a kill during the fresh scale-up of a group, rerunning the tool
\* in an eventually healthy environment leads to a run that returns with
\* every group restored and the three tags removed.
C10_KilledRolloutCompletes ==
    (pc = "killed") ~> (pc = "returned" /\ Restored)

\* C11: when the eviction of a pod fails while a node is drained, the run
\* fails fatally: update_asgs raises, the node is not deleted and its
\* instance is not terminated, and nothing further is processed.
C11_EvictionFailureIsFatal ==
    log.evict_failed # {} =>
        /\ pc = "raised"
        /\ fatal # ""
        /\ log.evict_failed \cap (log.deleted \cup log.terminated) = {}

\* C12: when the termination of an instance reports failure or timeout the
\* run goes on: the group of the instance is in the end scaled back down and
\* its tags are removed.
C12_TerminationFailureGoesOn ==
    \A i \in Instances :
        (i \in log.terminated /\ i \notin terminated)
            ~> (i[1] \in log.scaled_down /\ Tags[i[1]] = NoTags)

\* C14: a run in which every external call returns comes to an end: it
\* completes all groups, or aborts on an exhausted health budget or on a node
\* it cannot resolve or drain.
C14_RunEnds ==
    <>(pc \in {"returned", "raised", "exited"})

\* update_asgs has ended and control is back in main (or the process exits).
Outcomes == {"returned", "raised", "exited"}

C15_Mode2RetiresNothing ==
    app_config.RUN_MODE = 2 => log.drained \cup log.deleted \cup log.terminated = {}

\* The kinds of operation on a group, in the order of the per-group loop.
GroupPhases ==
    <<"scale_up", "mark", "suspend", "retire", "scale_down", "resume", "delete_tags">>

\* s is t with some elements left out.
RECURSIVE IsSubsequence(_, _)
IsSubsequence(s, t) ==
    IF s = <<>> THEN TRUE
    ELSE IF t = <<>> THEN FALSE
    ELSE IF Head(s) = Head(t) THEN IsSubsequence(Tail(s), Tail(t))
    ELSE IsSubsequence(s, Tail(t))

\* The group has had an operation of a kind other than the given ones.
Beyond(g, kinds) == SeqToSet(log.phases[g]) \ kinds # {}

\* C15 (amended): in run mode 2 every group of the plan is scaled up before
\* any node is cordoned or tainted, every instance of every group named by
\* the worker group order is cordoned or tainted before any group is
\* suspended, drained or scaled down, the per-group loop scales no group up
\* and marks no node again, and it then retires the instances and scales the
\* group down as in the other run modes.
C15_Mode2UpfrontThenRetire ==
    app_config.RUN_MODE = 2 =>
        /\ \A g \in Groups : IsSubsequence(log.phases[g], GroupPhases)
        /\ (\E g \in Groups : Beyond(g, {"scale_up"}))
               => \A g \in Groups : log.phases[g] # <<>> /\ Head(log.phases[g]) = "scale_up"
        /\ (\E g \in Groups : Beyond(g, {"scale_up", "mark"}))
               => \A g \in Groups :
                     InWorkerGroupsOrder(g, app_config.K8S_WORKER_GROUPS_ORDER)
                        => SeqToSet(plan[g]) \subseteq log.marked
        /\ log.drained \cup log.terminated # {}
               => \E g \in Groups : Beyond(g, {"scale_up", "mark", "suspend"})

C15_Witness ==
    /\ app_config.RUN_MODE = 2
    /\ pc = "returned"
    /\ log.terminated # {}
    /\ \E g \in Groups : log.phases[g] = <<"scale_up">>
    /\ \E g \in Groups : log.phases[g] =
          <<"scale_up", "mark", "suspend", "retire", "scale_down", "resume", "delete_tags">>

\* The place of the first entry of the worker group order the group's name
\* contains; 0 when it contains none.
Rank(g) ==
    LET order == app_config.K8S_WORKER_GROUPS_ORDER
        hits == { k \in 1..Len(order) : IsSubstr(order[k], AsgName[g]) }
    IN IF hits = {} THEN 0 ELSE CHOOSE k \in hits : \A j \in hits : k <= j

\* The kinds of operation the run mode performs on all groups before the
\* per-group loop.
UpfrontPhases ==
    CASE app_config.RUN_MODE = 2 -> {"scale_up", "mark"}
      [] app_config.RUN_MODE = 3 -> {"mark"}
      [] OTHER -> {}

\* The kinds of operation on a group, in the order of the run mode.
ModePhases ==
    IF app_config.RUN_MODE = 3
    THEN <<"mark", "scale_up", "suspend", "retire", "scale_down", "resume", "delete_tags">>
    ELSE GroupPhases

\* The per-group loop has started on the group; it has finished with it.
Started(g) == Beyond(g, UpfrontPhases)
Finished(g) ==
    /\ log.phases[g] # <<>>
    /\ log.phases[g][Len(log.phases[g])] = "delete_tags"
    /\ Tags[g] = NoTags

\* The instances of the group the retirement loop has dealt with.
Handled(g) == { i \in log.drained \cup log.skipped : i[1] = g }

C16_WitnessTwice ==
    /\ app_config.K8S_WORKER_GROUPS_ORDER = << <<"a">>, <<"w">> >>
    /\ pc = "returned"
    /\ \A g \in Groups : Finished(g)

\* The attempt found all four checks answering true.
AllPass(attempt) == \A k \in Checks : attempt.answers[k]

\* C17: every attempt calls the checks in the order ASG scaled, ASG healthy,
\* node count, nodes ready, and stops at the first that answers false;
\* validate_cluster_health with budget R returns exactly at the first attempt
\* whose four checks all pass, makes at most R attempts, and raises only
\* after R attempts have failed, and then always.
C17_ValidateClusterHealth ==
    LET R == health.cluster_health_retry
        n == Len(health.attempts)
    IN /\ \A j \in 1..n :
             LET a == health.attempts[j]
             IN \E k \in Checks :
                   /\ a.evaluated = [c \in 1..k |-> c]
                   /\ \A c \in 1..(k - 1) : a.answers[c]
                   /\ k < 4 => ~a.answers[k]
       /\ n <= R
       /\ n = health.retry_count
       /\ \A j \in 1..(n - 1) : ~AllPass(health.attempts[j])
       /\ health.pc = "returned" <=> (n > 0 /\ AllPass(health.attempts[n]))
       /\ health.pc = "raised" => n = R /\ \A j \in 1..n : ~AllPass(health.attempts[j])
       /\ (health.pc = "loop" /\ n = R) => ENABLED HealthCheckFailed

\* The second attempt passes after a first one stopped at its second check.
C17_Witness ==
    /\ health.pc = "returned"
    /\ Len(health.attempts) = 2
    /\ health.attempts[1].evaluated = <<1, 2>>
    /\ health.attempts[2].evaluated = <<1, 2, 3, 4>>

\* The budget is used up by failed attempts.
C17_WitnessRaised ==
    /\ health.pc = "raised"
    /\ Len(health.attempts) = MaxHealthRetry

\* The run has stopped on a fatal error.
Aborted == fatal # ""

\* C18: a fatal error stops the run where it is: update_asgs is left by an
\* exception or an exit and the exit code is not 0; the groups after the one
\* in hand have not been started on by the per-group loop (and not been
\* touched at all when the error came before any cordon), the instances after
\* the one in hand have not been cordoned or tainted, and nothing is done to
\* the cloud or the cluster afterwards.  The exit code is 0 only when the
\* loop has finished every group the worker group order names.
C18_FatalStopsTheRun ==
    /\ [](Aborted =>
            /\ pc \in {"raised", "exited"}
            /\ \A enabled \in BOOLEAN : main(FALSE, enabled, pc).exit_code # 0
            /\ \A k \in 2..Len(gq) :
                  /\ ~Started(gq[k])
                  /\ log.marked = {} => log.phases[gq[k]] = <<>>
                  /\ Handled(gq[k]) = {}
                  /\ gq[k] \notin log.scaled_down
            /\ \A k \in 2..Len(iq) :
                  /\ iq[k] \notin log.marked \cup log.drained \cup log.deleted \cup log.terminated
                  /\ iq[k][1] # iq[1][1] => "mark" \notin SeqToSet(log.phases[iq[k][1]]))
    /\ [](\A enabled \in BOOLEAN :
            (pc \in Outcomes /\ main(FALSE, enabled, pc).exit_code = 0)
               => /\ ~Aborted
                  /\ \A g \in Groups : Rank(g) # 0 => Finished(g))
    /\ [][Aborted => UNCHANGED <<cloudVars, log>>]_vars

\* The health check gave up on the first group of the loop while a second
\* group waits behind it.
C18_Witness ==
    /\ fatal = "HealthCheck"
    /\ pc = "raised"
    /\ app_config.RUN_MODE = 1
    /\ Len(gq) = 2
    /\ log.phases[gq[1]] = <<"scale_up">>
    /\ log.phases[gq[2]] = <<>>

\* The upfront loop exited on an instance of the first group while those of
\* the second were still to come.
C18_WitnessExit ==
    /\ fatal = "exit1"
    /\ pc = "exited"
    /\ app_config.RUN_MODE = 3
    /\ \E k \in 2..Len(iq) : iq[k][1] # iq[1][1]

\* C19: whenever the process has stopped (update_asgs returned, a fatal
\* error ended it, or it was killed), every group carries either none of
\* the three state tags or all three.
C19_TagsAllOrNone ==
    pc \in {"returned", "raised", "exited", "killed"}
        => \A g \in Groups : DOMAIN Tags[g] \in {{}, {DESIRED, ORIG, ORIGMAX}}

\* A step deletes a state tag of the group.
DeletesTag(g) == DOMAIN Tags'[g] # DOMAIN Tags[g] /\ DOMAIN Tags'[g] \subseteq DOMAIN Tags[g]

\* The group's tags are deleted, or being deleted, only with every instance
\* of its plan dealt with and the group back at its original desired
\* capacity and max size.
DeletedLast(g) ==
    "delete_tags" \in SeqToSet(log.phases[g]) =>
        /\ Handled(g) = SeqToSet(plan[g])
        /\ g \in log.scaled_down
        /\ DesiredCapacity[g] = InitialDesiredCapacity[g]
        /\ MaxSize[g] = InitialMaxSize[g]

\* C20 (as stated): the tags of a group are deleted only after all its
\* outdated instances have been handled and it is back at its original
\* desired capacity and max size, no tag is deleted while DesiredCapacity is
\* above the original value, and the operations on a group come in the order
\* scale-up, cordon/taint, suspend, retire, scale-down, resume, delete tags.
C20_TagsDeletedLast ==
    /\ [](\A g \in Groups : DeletedLast(g) /\ IsSubsequence(log.phases[g], GroupPhases))
    /\ [][\A g \in Groups :
             DeletesTag(g) => DesiredCapacity[g] <= InitialDesiredCapacity[g]]_vars

\* C20 (amended): as stated, except that in run mode 3 the cordon/taint of a
\* group, done upfront, comes before its scale-up.
C20_TagsDeletedLastByMode ==
    /\ [](\A g \in Groups : DeletedLast(g) /\ IsSubsequence(log.phases[g], ModePhases))
    /\ [][\A g \in Groups :
             DeletesTag(g) => DesiredCapacity[g] <= InitialDesiredCapacity[g]]_vars

\* A run of mode 3 has taken a group with outdated instances through all
\* the operations and deleted its tags.
C20_Witness ==
    /\ app_config.RUN_MODE = 3
    /\ pc = "returned"
    /\ \E g \in Groups :
          /\ plan[g] # <<>>
          /\ log.phases[g] = ModePhases
          /\ Tags[g] = NoTags

\* C21: a node is drained only after this run cordoned or tainted it, deleted
\* only after it was drained, and its instance is terminated only after the
\* node was deleted and the lowered desired-capacity tag was written.
C21_StepsInOrder ==
    /\ log.drained \subseteq log.marked
    /\ log.deleted \subseteq log.drained
    /\ log.terminated \subseteq log.deleted
    /\ pc = "terminate" =>
          /\ HasTag(Tags[Head(gq)], DESIRED)
          /\ Tags[Head(gq)][DESIRED] = desired_asg_capacity

\* C22: get_node_by_instance_id fails only with the not-found error, only
\* after `retries` attempts, and only when the instance was in none of the
\* included lists it searched: the one passed and those fetched after a miss.
C22_RefreshedListIsSearched ==
    lookup.pc = "raised" =>
        /\ lookup.error = "NotFound"
        /\ lookup.attempt = lookup.retries
        /\ \A k \in 1..Len(lookup.fetched) : lookup.instance_id \notin lookup.fetched[k]

\* C23: the node of an instance in the excluded node list is never cordoned
\* or tainted, drained or deleted, its instance is never terminated, and the
\* retirement loop never lowers its counter for it.
C23_ExcludedNeverTouched ==
    k8s_excluded_nodes \cap
        (log.marked \cup log.drained \cup log.evict_failed \cup log.deleted \cup log.terminated)
      = {}

\* C24: every scale-up request asks, with the desired capacity d, for a max
\* size of d when d is above the group's original max size and for the
\* original max size otherwise; the max size requested never goes down from
\* one increment to the next and is never below the original one; and the
\* desired capacity of a group is never above its max size.
C24_MaxSizeFollowsCapacity ==
    \A g \in Groups :
        LET calls == log.scale_calls[g]
        IN /\ \A k \in 1..Len(calls) :
                 /\ calls[k][2] = IF calls[k][1] > InitialMaxSize[g]
                                  THEN calls[k][1] ELSE InitialMaxSize[g]
                 /\ k > 1 => calls[k][2] >= calls[k - 1][2]
           /\ MaxSize[g] >= InitialMaxSize[g]
           /\ DesiredCapacity[g] <= MaxSize[g]

\* A scale-up in two increments has raised the max size of one group with
\* each of them, and another group was scaled up within its max size.
C24_Witness ==
    /\ \E g \in Groups :
          /\ Len(log.scale_calls[g]) = 2
          /\ log.scale_calls[g][1][1] > InitialMaxSize[g]
          /\ log.scale_calls[g][2][1] > log.scale_calls[g][1][1]
          /\ DesiredCapacity[g] = log.scale_calls[g][2][1]
    /\ \E g \in Groups :
          /\ Len(log.scale_calls[g]) = 1
          /\ log.scale_calls[g][1][1] > InitialDesiredCapacity[g]
          /\ log.scale_calls[g][1][2] = InitialMaxSize[g]

\* This run has suspended the group's scaling processes.
SuspendedByRun(g) == "suspend" \in SeqToSet(log.phases[g])

\* C25: the tool suspends the scaling processes of a group only when the
\* group has an outdated instance and termination is not left to the
\* termination policy; a group this run suspended is still suspended only
\* while the loop is on it and has not yet resumed it, so that no group is
\* suspended when update_asgs returns; and scale_up_asg begins with a resume:
\* inside it, past its first call, the group is not suspended.
C25_SuspendResume ==
    /\ [](/\ \A g \in Groups :
               (SuspendedByRun(g) /\ suspended[g])
                  => /\ gq # <<>> /\ g = Head(gq)
                     /\ "resume" \notin SeqToSet(log.phases[g])
                     /\ pc # "returned"
          /\ pc = "returned" => \A g \in Groups : ~suspended[g]
          /\ (su # NoCall /\ pc # "su_resume") => ~suspended[su.g])
    /\ [][\A g \in Groups :
             (~suspended[g] /\ suspended'[g])
                => /\ plan[g] # <<>>
                   /\ ~app_config.ASG_USE_TERMINATION_POLICY
                   /\ g = Head(gq)]_vars

\* A rerun has returned after suspending and resuming a group.
C25_Witness ==
    /\ runs = 2
    /\ pc = "returned"
    /\ \E g \in Groups :
          /\ SuspendedByRun(g)
          /\ "resume" \in SeqToSet(log.phases[g])
          /\ ~suspended[g]

\* A rerun enters scale_up_asg for a group an interrupted run left suspended.
C25_WitnessStale ==
    /\ runs = 2
    /\ pc = "su_resume"
    /\ suspended[su.g]

\* The instance's node has been drained and deleted and, unless termination
\* is left to the termination policy, its termination has been requested.
Retired(i) ==
    /\ i \in log.drained
    /\ i \in log.deleted
    /\ ~app_config.ASG_USE_TERMINATION_POLICY => i \in log.terminated

\* C26: once the cleanup of a group has scaled it down, and so when
\* update_asgs has returned, every instance of the group's plan whose node
\* is in the included node list has been retired.
C26_IncludedAllRetired ==
    \A g \in log.scaled_down :
        \A k \in 1..Len(plan[g]) :
            plan[g][k] \in k8s_nodes => Retired(plan[g][k])

\* The groups whose desired capacity is above the original one.
ScaledUp == { g \in Groups : DesiredCapacity[g] > InitialDesiredCapacity[g] }

=========================================================================
